---- MODULE Spec2Model ----
(* UDP hole-punching chat client of kim400im/client-streaming.             *)
(* Two variants of main() are modelled: src/unnamed/part_000 (the peer     *)
(* address is chosen by comparing public IPs) and src/client.go (the peer  *)
(* address is chosen by the private-range prefix test, with a retry on the *)
(* public IP).  Both keep ONE stored peer address, the package variable    *)
(* otherPeerAddr, which is read and written by the signaling goroutine,    *)
(* the punch goroutines and the chat input loop without any lock.          *)
(*                                                                         *)
(* Text is modelled structurally.  An IP string is the sequence of its     *)
(* dot-separated decimal labels ("192.168.1.9" is <<192,168,1,9>>, "" is   *)
(* <<>>); a port string is the sequence of its characters, a digit being   *)
(* its value 0..9 and any larger number a non-digit character.  The string *)
(* host + ":" + port is the pair <<host, port>> and "" is <<>>.            *)
EXTENDS Integers, Sequences, FiniteSets

VARIABLES variant, myPublicIP, otherPeerAddr, sigpc, receivedPeers,
          peerAddrStr, punch, target, chatpc, chatArg, udppc, addr

\* variant        which main() runs: "part_000" or "client.go"
\* myPublicIP     part_000:94, the own public IP ("" in client.go:90)
\* otherPeerAddr  part_000:39, the stored peer address (the registry)
\* sigpc          signaling goroutine: "read" blocked in ws.ReadJSON (:113),
\*                "proc" running the iteration (:119-177), "stopped" (:116)
\* receivedPeers  part_000:112, the peer list last read
\* peerAddrStr    part_000:135, the address text chosen for dialing
\* punch          the punch goroutines (:169-177) by slot: pc is "check"
\*                (:170-171), "load" (argument of :174 evaluated next), "send"
\*                (WriteToUDP and Sleep next), "done"; i the loop counter;
\*                arg the evaluated destination; probes the WriteToUDP calls
\* target         by slot, the address stored at :165 right before the
\*                goroutine of the slot was started at :169 (kept in
\*                SpecBurst only)
\* chatpc         chat loop: "scan" (:195), "check" (:197), "load" and "send"
\*                (:198), "fail" (:199-201); chatArg the evaluated destination
\* udppc, addr    receive loop: "read" (:184), "log" (:185-189); addr the
\*                sender, nil after a read error
\* A goroutine step is one access of otherPeerAddr or one call; steps of
\* different goroutines interleave freely, there being no lock in the code.
vars == <<variant, myPublicIP, otherPeerAddr, sigpc, receivedPeers,
          peerAddrStr, punch, target, chatpc, chatArg, udppc, addr>>

-----------------------------------------------------------------------------
(* Bounds *)

MaxPeers == 2
MaxTasks == 1

(* Program constant: the loop bound of the punch goroutine. *)
PunchCount == 10

-----------------------------------------------------------------------------
(* Values *)

Variants == {"part_000", "client.go"}

\* the nil *net.UDPAddr
NIL == [ip |-> <<>>, port |-> -1]

\* the non-nil error of net.ResolveUDPAddr
ResolveError == [ip |-> <<>>, port |-> -2]

EmptyStr == <<>>

HostPort(host, port) == <<host, port>>

PubA == <<9, 9, 9, 9>>
PubB == <<8, 8, 8, 8>>
PrivA == <<192, 168, 1, 9>>
\* has the private prefix "10." but is no IP literal and no resolvable name
PrivBad == <<10, 0, 0, 999>>

UDPAddressInfo(pub, priv, port) ==
    [public_ip |-> pub, private_ip |-> priv, port |-> port]

Id1 == UDPAddressInfo(PubA, PrivA, <<7>>)
Id2 == UDPAddressInfo(PubB, PrivBad, <<7>>)
Id3 == UDPAddressInfo(PubB, <<>>, <<0, 7>>)
Id4 == UDPAddressInfo(<<>>, PrivA, <<7, 120>>)
Id5 == UDPAddressInfo(<<>>, PrivBad, <<7>>)
Id6 == UDPAddressInfo(PubA, <<192, 168, 1, 5>>, <<5, 0, 0, 1>>)

Peers == {Id1, Id2, Id3, Id4, Id5}

RECURSIVE PeerLists(_)
PeerLists(n) ==
    IF n = 0 THEN {<<>>}
    ELSE LET shorter == PeerLists(n - 1)
         IN shorter \cup {Append(l, p) : l \in {s \in shorter : Len(s) = n - 1}, p \in Peers}

\* the peer lists the signaling server may deliver
Updates == PeerLists(MaxPeers)

\* the peer lists delivered while the goroutines are interleaved step by step
ConcUpdates == {<<>>, <<Id1>>, <<Id2, Id1>>}

Tasks == 1..MaxTasks

-----------------------------------------------------------------------------
(* net.ResolveUDPAddr and the String method of net.UDPAddr, as used by main *)

RECURSIVE DigitsValue(_)
DigitsValue(s) ==
    IF s = <<>> THEN 0
    ELSE DigitsValue(SubSeq(s, 1, Len(s) - 1)) * 10 + s[Len(s)]

\* the port number of a port string, -1 when it is no usable port:
\* "" is port 0, a decimal string is its value, anything else is looked up
\* as a service name and not found; values above 65535 are rejected
ParsePort(s) ==
    IF \E k \in 1..Len(s) : s[k] \notin 0..9 THEN -1
    ELSE IF DigitsValue(s) > 65535 THEN -1
    ELSE DigitsValue(s)

RECURSIVE Itoa(_)
Itoa(n) == IF n < 10 THEN <<n>> ELSE Itoa(n \div 10) \o <<n % 10>>

IsIPLiteral(host) == Len(host) = 4 /\ \A k \in 1..4 : host[k] \in 0..255

ResolveUDPAddr(str) ==
    LET host == str[1]
        port == ParsePort(str[2])
    IN  IF port = -1 THEN ResolveError
        ELSE IF host = <<>> \/ IsIPLiteral(host) THEN [ip |-> host, port |-> port]
        ELSE ResolveError

AddrString(a) == HostPort(a.ip, Itoa(a.port))

-----------------------------------------------------------------------------
(* Address selection *)

isPrivateIP(ip) ==
    \/ Len(ip) >= 2 /\ ip[1] = 10
    \/ Len(ip) >= 3 /\ ip[1] = 172 /\ ip[2] \in 16..31
    \/ Len(ip) >= 3 /\ ip[1] = 192 /\ ip[2] = 168
    \/ Len(ip) >= 2 /\ ip[1] = 127

\* mutant: the test myPublicIP != "" is dropped
SelectPart000NoEmptyTest(self, peerInfo) ==
    LET targetIP == IF self = peerInfo.public_ip
                    THEN peerInfo.private_ip
                    ELSE peerInfo.public_ip
    IN  HostPort(targetIP, peerInfo.port)

\* mutant: the public IP is always the target
SelectPart000AlwaysPublic(self, peerInfo) ==
    HostPort(peerInfo.public_ip, peerInfo.port)

SelectPart000(self, peerInfo) ==
    LET targetIP == IF self # <<>> /\ self = peerInfo.public_ip
                    THEN peerInfo.private_ip
                    ELSE peerInfo.public_ip
    IN  HostPort(targetIP, peerInfo.port)

SelectClient(peerInfo) ==
    IF peerInfo.private_ip # <<>> /\ isPrivateIP(peerInfo.private_ip)
    THEN HostPort(peerInfo.private_ip, peerInfo.port)
    ELSE HostPort(peerInfo.public_ip, peerInfo.port)

-----------------------------------------------------------------------------
(* One iteration of the signaling goroutine after ws.ReadJSON returned.     *)
(* The result: reg, the value of otherPeerAddr afterwards; str, the final   *)
(* value of peerAddrStr; wrote, whether otherPeerAddr was assigned; go,     *)
(* whether a punch goroutine was started.                                   *)

\* mutant: the empty list does not reset otherPeerAddr
ClearedKeeps(cur) ==
    [reg |-> cur, str |-> EmptyStr, wrote |-> FALSE, go |-> FALSE]

Cleared(cur) ==
    [reg |-> NIL, str |-> EmptyStr, wrote |-> cur # NIL, go |-> FALSE]

\* mutant: a skipped iteration resets otherPeerAddr
SkippedClears(cur, str) ==
    [reg |-> NIL, str |-> str, wrote |-> TRUE, go |-> FALSE]

Skipped(cur, str) ==
    [reg |-> cur, str |-> str, wrote |-> FALSE, go |-> FALSE]

\* mutant: the address is stored but no punch goroutine is started
StoredNoPunch(peerAddr, str) ==
    [reg |-> peerAddr, str |-> str, wrote |-> TRUE, go |-> FALSE]

Stored(peerAddr, str) ==
    [reg |-> peerAddr, str |-> str, wrote |-> TRUE, go |-> TRUE]

ReconcilePart000(self, peers, cur) ==
    IF Len(peers) = 0 THEN Cleared(cur)
    ELSE LET str == SelectPart000(self, peers[1])
         IN  IF cur # NIL /\ AddrString(cur) = str THEN Skipped(cur, str)
             ELSE IF ResolveUDPAddr(str) = ResolveError THEN Skipped(cur, str)
             ELSE Stored(ResolveUDPAddr(str), str)

ReconcileClient(peers, cur) ==
    IF Len(peers) = 0 THEN Cleared(cur)
    ELSE LET peerInfo == peers[1]
             str == SelectClient(peerInfo)
             retry == HostPort(peerInfo.public_ip, peerInfo.port)
         IN  IF cur # NIL /\ AddrString(cur) = str THEN Skipped(cur, str)
             ELSE IF ResolveUDPAddr(str) # ResolveError
                  THEN Stored(ResolveUDPAddr(str), str)
             ELSE IF peerInfo.public_ip = <<>> THEN Skipped(cur, str)
             ELSE IF ResolveUDPAddr(retry) = ResolveError THEN Skipped(cur, retry)
             ELSE Stored(ResolveUDPAddr(retry), retry)

Reconcile(v, self, peers, cur) ==
    IF v = "part_000" THEN ReconcilePart000(self, peers, cur)
    ELSE ReconcileClient(peers, cur)

-----------------------------------------------------------------------------
(* Punch goroutines *)

IdleTask == [pc |-> "idle", i |-> 0, arg |-> NIL, probes |-> 0]

NewTask == [pc |-> "check", i |-> 0, arg |-> NIL, probes |-> 0]

Free(t) == punch[t].pc \in {"idle", "done"}

HasFree == \E t \in Tasks : Free(t)

FreeSlot == CHOOSE t \in Tasks : Free(t) /\ \A s \in Tasks : Free(s) => t <= s

\* the own public IP: part_000 takes what getPublicIP returns ("" when the
\* lookup fails), client.go reports ""
PublicIPs(v) == IF v = "part_000" THEN {<<>>, PubA} ELSE {<<>>}

\* everything but the variant and the own public IP
InitState ==
    /\ otherPeerAddr = NIL
    /\ sigpc = "read"
    /\ receivedPeers = <<>>
    /\ peerAddrStr = EmptyStr
    /\ punch = [t \in Tasks |-> IdleTask]
    /\ target = [t \in Tasks |-> NIL]
    /\ chatpc = "scan"
    /\ chatArg = NIL
    /\ udppc = "read"
    /\ addr = NIL

Init ==
    /\ variant \in Variants
    /\ myPublicIP \in PublicIPs(variant)
    /\ InitState

\* the start of the step-by-step runs: part_000 with a known public IP
InitConc ==
    /\ variant \in Variants
    /\ myPublicIP \in PublicIPs(variant) \ (IF variant = "part_000" THEN {<<>>} ELSE {})
    /\ InitState

\* the effect of one loop iteration on the shared state
Apply(r) ==
    /\ r.go => HasFree
    /\ otherPeerAddr' = r.reg
    /\ peerAddrStr' = r.str
    /\ punch' = IF r.go THEN [punch EXCEPT ![FreeSlot] = NewTask] ELSE punch

\* the same when every slot is busy: the goroutine started runs unobserved
ApplyUnobserved(r) ==
    /\ otherPeerAddr' = r.reg
    /\ peerAddrStr' = r.str
    /\ UNCHANGED punch

\* mutant: the loop reads on after an error of ReadJSON
SigReadAfterError(u) ==
    /\ sigpc \in {"read", "stopped"}
    /\ sigpc' = "proc"
    /\ receivedPeers' = u
    /\ peerAddrStr' = EmptyStr
    /\ UNCHANGED <<variant, myPublicIP, otherPeerAddr, punch, target, chatpc, chatArg, udppc, addr>>

SigRead(u) ==
    /\ sigpc = "read"
    /\ sigpc' = "proc"
    /\ receivedPeers' = u
    /\ peerAddrStr' = EmptyStr
    /\ UNCHANGED <<variant, myPublicIP, otherPeerAddr, punch, target, chatpc, chatArg, udppc, addr>>

\* the iteration, the record of the burst targets apart
SigIteration ==
    /\ sigpc = "proc"
    /\ LET r == Reconcile(variant, myPublicIP, receivedPeers, otherPeerAddr)
       IN  IF r.go /\ ~HasFree THEN ApplyUnobserved(r) ELSE Apply(r)
    /\ sigpc' = "read"
    /\ UNCHANGED <<variant, myPublicIP, receivedPeers, chatpc, chatArg, udppc, addr>>

SigProcess ==
    /\ SigIteration
    /\ UNCHANGED target

\* the iteration, recording for the goroutine it starts the address just stored
SigProcessTraced ==
    /\ SigIteration
    /\ target' = [t \in Tasks |-> IF punch'[t] # punch[t] THEN otherPeerAddr'
                                   ELSE target[t]]

SigError ==
    /\ sigpc = "read"
    /\ sigpc' = "stopped"
    /\ UNCHANGED <<variant, myPublicIP, otherPeerAddr, receivedPeers, peerAddrStr,
                   punch, target, chatpc, chatArg, udppc, addr>>

\* ReadJSON and the rest of the iteration in one step
SigUpdate(u) ==
    /\ sigpc = "read"
    /\ receivedPeers' = u
    /\ Apply(Reconcile(variant, myPublicIP, u, otherPeerAddr))
    /\ UNCHANGED <<variant, myPublicIP, sigpc, target, chatpc, chatArg, udppc, addr>>

\* mutant: the loop condition is i <= 10
PunchCheckOffByOne(t) ==
    /\ punch[t].pc = "check"
    /\ punch' = [punch EXCEPT ![t].pc =
                    IF punch[t].i <= PunchCount /\ otherPeerAddr # NIL
                    THEN "load" ELSE "done"]
    /\ UNCHANGED <<variant, myPublicIP, otherPeerAddr, sigpc, receivedPeers,
                   peerAddrStr, target, chatpc, chatArg, udppc, addr>>

\* mutant: a goroutine that ends its burst resets otherPeerAddr
PunchCheckResets(t) ==
    /\ punch[t].pc = "check"
    /\ punch' = [punch EXCEPT ![t].pc =
                    IF punch[t].i < PunchCount /\ otherPeerAddr # NIL
                    THEN "load" ELSE "done"]
    /\ otherPeerAddr' = IF punch[t].i < PunchCount THEN otherPeerAddr ELSE NIL
    /\ UNCHANGED <<variant, myPublicIP, sigpc, receivedPeers,
                   peerAddrStr, target, chatpc, chatArg, udppc, addr>>

PunchCheck(t) ==
    /\ punch[t].pc = "check"
    /\ punch' = [punch EXCEPT ![t].pc =
                    IF punch[t].i < PunchCount /\ otherPeerAddr # NIL
                    THEN "load" ELSE "done"]
    /\ UNCHANGED <<variant, myPublicIP, otherPeerAddr, sigpc, receivedPeers,
                   peerAddrStr, target, chatpc, chatArg, udppc, addr>>

PunchLoad(t) ==
    /\ punch[t].pc = "load"
    /\ punch' = [punch EXCEPT ![t].pc = "send", ![t].arg = otherPeerAddr]
    /\ UNCHANGED <<variant, myPublicIP, otherPeerAddr, sigpc, receivedPeers,
                   peerAddrStr, target, chatpc, chatArg, udppc, addr>>

\* mutant: after a probe the goroutine waits for a reply instead of sleeping
PunchSendAwaitsReply(t) ==
    /\ punch[t].pc = "send"
    /\ punch' = [punch EXCEPT ![t] = [pc |-> "wait", i |-> punch[t].i,
                                      arg |-> NIL, probes |-> punch[t].probes + 1]]
    /\ UNCHANGED <<variant, myPublicIP, otherPeerAddr, sigpc, receivedPeers,
                   peerAddrStr, target, chatpc, chatArg, udppc, addr>>

PunchSend(t) ==
    /\ punch[t].pc = "send"
    /\ punch' = [punch EXCEPT ![t] = [pc |-> "check", i |-> punch[t].i + 1,
                                      arg |-> NIL, probes |-> punch[t].probes + 1]]
    /\ UNCHANGED <<variant, myPublicIP, otherPeerAddr, sigpc, receivedPeers,
                   peerAddrStr, target, chatpc, chatArg, udppc, addr>>

\* a whole burst run without interruption
PunchBurst(t) ==
    /\ punch[t].pc = "check"
    /\ punch[t].i = 0
    /\ punch' = [punch EXCEPT ![t] =
                    IF otherPeerAddr = NIL
                    THEN [pc |-> "done", i |-> 0, arg |-> NIL, probes |-> 0]
                    ELSE [pc |-> "done", i |-> PunchCount, arg |-> NIL,
                          probes |-> PunchCount]]
    /\ UNCHANGED <<variant, myPublicIP, otherPeerAddr, sigpc, receivedPeers,
                   peerAddrStr, target, chatpc, chatArg, udppc, addr>>

ChatScan ==
    /\ chatpc = "scan"
    /\ chatpc' = "check"
    /\ UNCHANGED <<variant, myPublicIP, otherPeerAddr, sigpc, receivedPeers,
                   peerAddrStr, punch, target, chatArg, udppc, addr>>

ChatCheck ==
    /\ chatpc = "check"
    /\ chatpc' = IF otherPeerAddr # NIL THEN "load" ELSE "scan"
    /\ UNCHANGED <<variant, myPublicIP, otherPeerAddr, sigpc, receivedPeers,
                   peerAddrStr, punch, target, chatArg, udppc, addr>>

ChatLoad ==
    /\ chatpc = "load"
    /\ chatpc' = "send"
    /\ chatArg' = otherPeerAddr
    /\ UNCHANGED <<variant, myPublicIP, otherPeerAddr, sigpc, receivedPeers,
                   peerAddrStr, punch, target, udppc, addr>>

ChatSend ==
    /\ chatpc = "send"
    /\ \E err \in BOOLEAN :
          /\ chatArg = NIL => err
          /\ chatpc' = IF err THEN "fail" ELSE "scan"
    /\ chatArg' = NIL
    /\ UNCHANGED <<variant, myPublicIP, otherPeerAddr, sigpc, receivedPeers,
                   peerAddrStr, punch, target, udppc, addr>>

\* a line read, the test of :197 and the evaluation of the destination
\* without interruption; the send itself is ChatSend
ChatLine ==
    /\ chatpc = "scan"
    /\ IF otherPeerAddr # NIL
       THEN chatpc' = "send" /\ chatArg' = otherPeerAddr
       ELSE UNCHANGED <<chatpc, chatArg>>
    /\ UNCHANGED <<variant, myPublicIP, otherPeerAddr, sigpc, receivedPeers,
                   peerAddrStr, punch, target, udppc, addr>>

\* the failed send is logged and the next line is read
ChatFail ==
    /\ chatpc = "fail"
    /\ chatpc' = "scan"
    /\ UNCHANGED <<variant, myPublicIP, otherPeerAddr, sigpc, receivedPeers,
                   peerAddrStr, punch, target, chatArg, udppc, addr>>

\* the senders a datagram may come from; NIL stands for a read error
Senders == {ResolveUDPAddr(SelectClient(Id1)), NIL}

UdpRead(s) ==
    /\ udppc = "read"
    /\ udppc' = "log"
    /\ addr' = s
    /\ UNCHANGED <<variant, myPublicIP, otherPeerAddr, sigpc, receivedPeers,
                   peerAddrStr, punch, target, chatpc, chatArg>>

\* mutant: the sender of a datagram becomes the stored peer address
UdpLogPromote ==
    /\ udppc = "log"
    /\ udppc' = "read"
    /\ addr' = NIL
    /\ otherPeerAddr' = IF addr # NIL THEN addr ELSE otherPeerAddr
    /\ UNCHANGED <<variant, myPublicIP, sigpc, receivedPeers,
                   peerAddrStr, punch, target, chatpc, chatArg>>

\* mutant: the receive loop returns on a read error
UdpLogStopsOnError ==
    /\ udppc = "log"
    /\ udppc' = IF addr = NIL THEN "stopped" ELSE "read"
    /\ addr' = NIL
    /\ UNCHANGED <<variant, myPublicIP, otherPeerAddr, sigpc, receivedPeers,
                   peerAddrStr, punch, target, chatpc, chatArg>>

UdpLog ==
    /\ udppc = "log"
    /\ udppc' = "read"
    /\ addr' = NIL
    /\ UNCHANGED <<variant, myPublicIP, otherPeerAddr, sigpc, receivedPeers,
                   peerAddrStr, punch, target, chatpc, chatArg>>

Next ==
    \/ \E u \in ConcUpdates : SigRead(u)
    \/ SigProcess
    \/ SigError
    \/ \E t \in Tasks : PunchCheck(t)
    \/ \E t \in Tasks : PunchLoad(t)
    \/ \E t \in Tasks : PunchSend(t)
    \/ ChatScan
    \/ ChatCheck
    \/ ChatLoad
    \/ ChatSend
    \/ ChatFail
    \/ \E s \in Senders : UdpRead(s)
    \/ UdpLog

Spec == InitConc /\ [][Next]_vars

NextRecon ==
    \/ \E u \in Updates : SigUpdate(u)
    \/ \E t \in Tasks : PunchBurst(t)

SpecRecon == Init /\ [][NextRecon]_vars

\* the lists of a room of two: no other member, or one
PairUpdates == {<<>>} \cup {<<p>> : p \in Peers \cup {Id6}}

\* a room of two: whole iterations of the signaling goroutine, whole bursts,
\* and the chat loop
NextPair ==
    \/ \E u \in PairUpdates : SigUpdate(u)
    \/ \E t \in Tasks : PunchBurst(t)
    \/ ChatLine
    \/ ChatSend
    \/ ChatFail

SpecPair == Init /\ [][NextPair]_vars

\* the signaling goroutine and the punch goroutines alone, step by step,
\* with the record of what each burst was started for
NextBurst ==
    \/ \E u \in ConcUpdates : SigRead(u)
    \/ SigProcessTraced
    \/ \E t \in Tasks : PunchCheck(t)
    \/ \E t \in Tasks : PunchLoad(t)
    \/ \E t \in Tasks : PunchSend(t)

SpecBurst == InitConc /\ [][NextBurst]_vars

\* a step of the punch goroutine of slot t
PunchStep(t) == PunchCheck(t) \/ PunchLoad(t) \/ PunchSend(t)

\* the signaling goroutine and the punch goroutines under a scheduler that
\* lets every goroutine that can run take its next step: a punch goroutine
\* only tests, sends and sleeps 100 ms, so it is always able to run
NextFair ==
    \/ \E u \in ConcUpdates : SigRead(u)
    \/ SigProcess
    \/ SigError
    \/ \E t \in Tasks : PunchStep(t)

SpecFair == InitConc /\ [][NextFair]_vars /\ \A t \in Tasks : WF_vars(PunchStep(t))

-----------------------------------------------------------------------------
(* Claims.  SpecRecon: every state is the state after a whole iteration of  *)
(* the signaling goroutine (or the initial one), receivedPeers being the    *)
(* list just processed.                                                     *)

\* C1 (as stated): after a non-empty update is processed, the address chosen
\* for dialing is private:port exactly when the own public IP is non-empty
\* and equals the remote public IP, and public:port otherwise, in each
\* variant.
C1_RuleInEveryVariant ==
    receivedPeers # <<>> =>
        LET p == receivedPeers[1]
        IN  peerAddrStr = IF myPublicIP # <<>> /\ myPublicIP = p.public_ip
                          THEN <<p.private_ip, p.port>>
                          ELSE <<p.public_ip, p.port>>

\* C1 (amended): in part_000 the address chosen for dialing follows the
\* public-IP comparison; in client.go it is private:port when the remote
\* private IP has a private-range prefix, unless that address does not
\* resolve and the remote public IP is non-empty, and public:port otherwise.
C1_DialedAddress ==
    receivedPeers # <<>> =>
        LET p == receivedPeers[1]
            private == <<p.private_ip, p.port>>
            public == <<p.public_ip, p.port>>
        IN  IF variant = "part_000"
            THEN peerAddrStr = IF myPublicIP # <<>> /\ myPublicIP = p.public_ip
                               THEN private ELSE public
            ELSE peerAddrStr = IF /\ isPrivateIP(p.private_ip)
                                  /\ \/ ResolveUDPAddr(private) # ResolveError
                                     \/ p.public_ip = <<>>
                               THEN private ELSE public

\* C1 witness: part_000 has processed a peer with its own, non-empty public
\* IP and chose the peer's private address.
C1_Witness ==
    /\ variant = "part_000"
    /\ receivedPeers # <<>>
    /\ myPublicIP # <<>>
    /\ receivedPeers[1].public_ip = myPublicIP
    /\ peerAddrStr = <<receivedPeers[1].private_ip, receivedPeers[1].port>>
    /\ otherPeerAddr = [ip |-> PrivA, port |-> 7]

\* C2: after an update is processed the stored peer address, if any, is one
\* of the addresses that resolve for the identities of that update (for
\* client.go the selected address or the public one it retries with).
C2_NoStaleEntry ==
    otherPeerAddr # NIL =>
        \E k \in 1..Len(receivedPeers) :
            LET p == receivedPeers[k]
            IN  \/ /\ variant = "part_000"
                   /\ otherPeerAddr = ResolveUDPAddr(SelectPart000(myPublicIP, p))
                \/ /\ variant = "client.go"
                   /\ otherPeerAddr \in {ResolveUDPAddr(SelectClient(p)),
                                         ResolveUDPAddr(<<p.public_ip, p.port>>)}

\* C3 (as stated): after a non-empty update is processed, every identity of
\* the update whose address resolves has a registry entry.
C3_EveryIdentityEntered ==
    \A k \in 1..Len(receivedPeers) :
        LET p == receivedPeers[k]
            sel == IF variant = "part_000" THEN SelectPart000(myPublicIP, p)
                   ELSE SelectClient(p)
        IN  ResolveUDPAddr(sel) # ResolveError => otherPeerAddr = ResolveUDPAddr(sel)

\* C3 (amended): after a non-empty update is processed, the first identity
\* of the update, if the address dialed for it resolves, is the registry
\* entry, and a punch burst was started by that update when that address was
\* not the stored one before; the other identities get no entry.
C3_FirstIdentityEntered ==
    [][receivedPeers' # <<>> =>
        LET p == receivedPeers'[1]
            sel == IF variant = "part_000" THEN SelectPart000(myPublicIP, p)
                   ELSE SelectClient(p)
            public == <<p.public_ip, p.port>>
            tgt == IF ResolveUDPAddr(sel) # ResolveError THEN ResolveUDPAddr(sel)
                   ELSE IF variant = "client.go" /\ p.public_ip # <<>>
                        THEN ResolveUDPAddr(public)
                        ELSE ResolveError
        IN  tgt # ResolveError =>
              /\ otherPeerAddr' = tgt
              /\ otherPeerAddr # tgt =>
                    \E t \in Tasks : punch[t] # NewTask /\ punch'[t] = NewTask]_vars

\* C3 witness: a list of two different identities was processed, the first
\* one's address is stored and a fresh punch goroutine exists.
C3_Witness ==
    /\ Len(receivedPeers) = 2
    /\ receivedPeers[1] = Id1
    /\ receivedPeers[2] = Id2
    /\ otherPeerAddr = ResolveUDPAddr(SelectClient(Id1))
    /\ \E t \in Tasks : punch[t] = NewTask

\* C4: processing the same non-empty list a second time changes no registry
\* entry and starts no punch burst.
C4_Idempotent ==
    [][(receivedPeers # <<>> /\ receivedPeers' = receivedPeers) =>
        /\ otherPeerAddr' = otherPeerAddr
        /\ \A t \in Tasks : punch'[t] = NewTask => punch[t] = NewTask]_vars

\* C5: processing an empty peer list leaves the stored peer address nil and
\* starts no punch burst.
C5_EmptyClears ==
    [][(sigpc = "proc" /\ sigpc' = "read" /\ receivedPeers = <<>>) =>
        (otherPeerAddr' = NIL /\ punch' = punch)]_vars

\* C5 witness: an empty list has been processed after a burst had been
\* started (so an address had been stored), and the address is nil.
C5_Witness ==
    /\ sigpc = "read"
    /\ receivedPeers = <<>>
    /\ otherPeerAddr = NIL
    /\ \E t \in Tasks : punch[t].pc = "load"

\* C6: while the last processed update is the empty one, no probe and no
\* chat datagram goes out to a peer address.
C6_QuietAfterEmpty ==
    [][(sigpc = "read" /\ receivedPeers = <<>>) =>
        /\ \A t \in Tasks :
              ~(punch[t].pc = "send" /\ punch'[t].pc # "send" /\ punch[t].arg # NIL)
        /\ ~(chatpc = "send" /\ chatpc' # "send" /\ chatArg # NIL)]_vars

\* C7 (as stated): a burst that has ended has issued exactly 10 probe sends.
C7_AlwaysTenProbes ==
    \A t \in Tasks : punch[t].pc = "done" => punch[t].probes = PunchCount

\* C7 (amended): a burst never issues more than 10 probe sends, and it ends
\* either after exactly 10 or, with fewer, at the start of an iteration at
\* which the stored peer address is nil.
C7_TenProbesUnlessCleared ==
    [][\A t \in Tasks :
        /\ punch'[t].probes <= PunchCount
        /\ (punch[t].pc # "done" /\ punch'[t].pc = "done") =>
              \/ punch'[t].probes = PunchCount
              \/ punch'[t].probes < PunchCount /\ otherPeerAddr = NIL]_vars

\* C7 witness: a burst has ended after 10 probe sends while an address is
\* stored.
C7_Witness ==
    \E t \in Tasks :
        punch[t].pc = "done" /\ punch[t].probes = PunchCount /\ otherPeerAddr # NIL

\* C8: the send issued for a chat line goes to a stored peer address, never
\* to an absent one.
C8_OneSendPerEntry ==
    chatpc = "send" => chatArg # NIL

\* C9 (as stated): once the receive loop has handled a datagram from a
\* sender that is not the stored peer address, that sender is stored.
C9_Promotion ==
    [][(udppc = "log" /\ udppc' = "read" /\ addr # NIL /\ addr # otherPeerAddr) =>
        otherPeerAddr' = addr]_vars

\* C9 (amended): the receive loop only logs a datagram; reading and handling
\* it, from a stored sender or not, for the first or a later time, leaves
\* the stored peer address as it was.
C9_ReceiveLeavesRegistry ==
    [][udppc' # udppc => otherPeerAddr' = otherPeerAddr]_vars

\* C9 witness: a datagram has been read from a sender that is not the
\* stored peer address.
C9_Witness ==
    udppc = "log" /\ addr # NIL /\ addr # otherPeerAddr

\* C10: the signaling goroutine is never at its assignment of otherPeerAddr
\* while a punch goroutine or the chat loop is at a read of it.
C10_MutualExclusion ==
    ~ /\ sigpc = "proc"
      /\ Reconcile(variant, myPublicIP, receivedPeers, otherPeerAddr).wrote
      /\ \/ \E t \in Tasks : punch[t].pc \in {"check", "load"}
         \/ chatpc \in {"check", "load"}

\* C11 (as stated): when the address selected for the first identity does
\* not resolve, the iteration leaves the address text at the selected one
\* (no other address is tried), leaves the stored peer address as it was and
\* starts no punch burst, in each variant.
C11_NoFallback ==
    [][receivedPeers' # <<>> =>
        LET p == receivedPeers'[1]
            sel == IF variant = "part_000" THEN SelectPart000(myPublicIP, p)
                   ELSE SelectClient(p)
        IN  ResolveUDPAddr(sel) = ResolveError =>
              /\ peerAddrStr' = sel
              /\ otherPeerAddr' = otherPeerAddr
              /\ \A t \in Tasks : punch'[t] = NewTask => punch[t] = NewTask
              /\ sigpc' = "read"]_vars

\* C11 (amended): the same, except that client.go, when the remote public IP
\* is non-empty, tries public:port next and treats the peer as any other if
\* that resolves; the peer is skipped when there is nothing to retry with or
\* the retry fails too.
C11_SkippedUnlessRetried ==
    [][receivedPeers' # <<>> =>
        LET p == receivedPeers'[1]
            sel == IF variant = "part_000" THEN SelectPart000(myPublicIP, p)
                   ELSE SelectClient(p)
            public == <<p.public_ip, p.port>>
            retried == variant = "client.go" /\ p.public_ip # <<>>
        IN  ResolveUDPAddr(sel) = ResolveError =>
              /\ sigpc' = "read"
              /\ peerAddrStr' = IF retried THEN public ELSE sel
              /\ IF retried /\ ResolveUDPAddr(public) # ResolveError
                 THEN otherPeerAddr' = ResolveUDPAddr(public)
                 ELSE /\ otherPeerAddr' = otherPeerAddr
                      /\ \A t \in Tasks : punch'[t] = NewTask => punch[t] = NewTask]_vars

\* C11 witness: part_000 has processed a peer whose selected address does not
\* resolve while an address was stored; the address is still stored and no
\* burst is under way.
C11_Witness ==
    /\ variant = "part_000"
    /\ receivedPeers = <<Id4>>
    /\ peerAddrStr = SelectPart000(myPublicIP, Id4)
    /\ otherPeerAddr # NIL
    /\ \A t \in Tasks : punch[t].pc = "done"

\* C12: once ReadJSON has failed, the signaling goroutine stays stopped: no
\* later list is read or processed, no punch burst is started and the
\* stored peer address keeps its value.
C12_StoppedForGood ==
    [][sigpc = "stopped" =>
        /\ sigpc' = "stopped"
        /\ receivedPeers' = receivedPeers
        /\ otherPeerAddr' = otherPeerAddr
        /\ \A t \in Tasks : punch'[t] = NewTask => punch[t] = NewTask]_vars

\* C12 witness: the goroutine has stopped while an address is stored and a
\* burst is under way.
C12_Witness ==
    /\ sigpc = "stopped"
    /\ otherPeerAddr # NIL
    /\ \E t \in Tasks : punch[t].pc = "send" /\ punch[t].probes > 0

\* C13: after a failed ReadFromUDP the receive loop is back at its read, and
\* after a failed chat send the input loop is back at reading a line; the
\* failures and their handling leave the stored peer address, the signaling
\* goroutine, the punch goroutines and the other loop as they were.
C13_ErrorsRecoverable ==
    [][LET udpFails == udppc = "read" /\ udppc' = "log" /\ addr' = NIL
           udpHandled == udppc = "log" /\ addr = NIL /\ udppc' # udppc
           chatFails == chatpc = "send" /\ chatpc' = "fail"
           chatHandled == chatpc = "fail" /\ chatpc' # chatpc
       IN  /\ udpHandled => udppc' = "read"
           /\ chatHandled => chatpc' = "scan"
           /\ (udpFails \/ udpHandled) => chatpc' = chatpc
           /\ (chatFails \/ chatHandled) => udppc' = udppc
           /\ (udpFails \/ udpHandled \/ chatFails \/ chatHandled) =>
                 /\ otherPeerAddr' = otherPeerAddr
                 /\ sigpc' = sigpc
                 /\ punch' = punch]_vars

\* C13 witness: a UDP read has failed and a chat send has failed while an
\* address is stored.
C13_Witness ==
    /\ udppc = "log"
    /\ addr = NIL
    /\ chatpc = "fail"
    /\ otherPeerAddr # NIL

\* C14: when a part_000 peer with a non-empty public IP has processed a list
\* holding only a peer that reports the same public IP (and, as part_000:88-99
\* produces them, an IP literal as private IP and a decimal port), the stored
\* peer address is that peer's private IP and port, and a chat line read then
\* is sent to that address.
C14_SameNetworkPair ==
    [][(/\ Len(receivedPeers') = 1
        /\ myPublicIP # <<>>
        /\ receivedPeers'[1].public_ip = myPublicIP
        /\ IsIPLiteral(receivedPeers'[1].private_ip)
        /\ ParsePort(receivedPeers'[1].port) > 0
        /\ Itoa(ParsePort(receivedPeers'[1].port)) = receivedPeers'[1].port) =>
        LET y == receivedPeers'[1]
            tgt == [ip |-> y.private_ip, port |-> ParsePort(y.port)]
        IN  /\ otherPeerAddr' = tgt
            /\ (receivedPeers' = receivedPeers /\ chatpc = "scan" /\ chatpc' = "send")
                  => chatArg' = tgt]_vars

\* C14 witness: the peer 9.9.9.9 / 192.168.1.5 / 5001 was the only one in the
\* list, 192.168.1.5:5001 is stored and a chat line is about to be sent there.
C14_Witness ==
    /\ variant = "part_000"
    /\ myPublicIP = PubA
    /\ receivedPeers = <<Id6>>
    /\ otherPeerAddr = [ip |-> <<192, 168, 1, 5>>, port |-> 5001]
    /\ chatpc = "send"
    /\ chatArg = otherPeerAddr

\* C15: a probe datagram that a burst is about to send is addressed to the
\* address for which the burst was started.
C15_ProbesToOwnTarget ==
    \A t \in Tasks :
        (punch[t].pc = "send" /\ punch[t].arg # NIL) => punch[t].arg = target[t]

\* C16: no WriteToUDP, of a punch goroutine or of the chat loop, is issued
\* with a nil destination.
C16_NoNilDestination ==
    /\ \A t \in Tasks : punch[t].pc = "send" => punch[t].arg # NIL
    /\ chatpc = "send" => chatArg # NIL

\* C17: under fair scheduling a punch goroutine that runs ends, having issued
\* at most 10 probe sends, whatever the signaling goroutine does meanwhile;
\* and the signaling goroutine, having read a list, can always process it,
\* whatever the punch goroutines are doing.
C17_BurstTerminates ==
    /\ \A t \in Tasks :
          (punch[t].pc \in {"check", "load", "send"})
              ~> (punch[t].pc = "done" /\ punch[t].probes <= PunchCount)
    /\ [](sigpc = "proc" => ENABLED SigProcess)

\* C17 witness: a burst has ended, cut short after some probes, and the
\* signaling goroutine has already read the next, non-empty list.
C17_Witness ==
    /\ \E t \in Tasks :
          punch[t].pc = "done" /\ punch[t].probes \in 1..(PunchCount - 1)
    /\ sigpc = "proc"
    /\ receivedPeers # <<>>

====
